---- MODULE Spec2Model ----
(***************************************************************************)
(* Model of the Modern-Blog REST API: the auth middleware                  *)
(* (server/middleware/auth.js), the post routes (server/routes/posts.js),  *)
(* the comment routes (server/routes/comments.js), the two Mongoose       *)
(* schemas (server/models/Post.js, server/models/Comment.js) and the tag   *)
(* parsing of the client's post editor (client/src/App.js).                *)
(*                                                                         *)
(* Every request is handled by an async function; the event loop may       *)
(* interleave other requests at each `await`.  One action of the model is  *)
(* one such slice: the store operation that was awaited takes effect and   *)
(* the synchronous code after it runs up to the next `await` (or up to the *)
(* response).                                                              *)
(*                                                                         *)
(* Text values are run-length encoded: a text is a sequence of runs        *)
(* [ch, n], so that a 1001-character comment is one run and length and     *)
(* trim are computed, not assumed.  An optional JavaScript value is a      *)
(* sequence of length 0 (undefined) or 1.                                  *)
(***************************************************************************)
EXTENDS Integers, Sequences, FiniteSets, TLC

VARIABLES
  users,          \* User collection: id -> stored user document
  posts,          \* Post collection: id -> stored post document
  comments,       \* Comment collection: id -> stored comment document
  nextPostId,     \* next fresh ObjectId handed out by `new Post(...)`
  nextCommentId,  \* next fresh ObjectId handed out by `new Comment(...)`
  req,            \* per connection: the request in flight and its response
  ui              \* the browser: state of the PostsList component

vars == <<users, posts, comments, nextPostId, nextCommentId, req, ui>>

(***************************************************************************)
(* Bounds of the model.                                                    *)
(***************************************************************************)
NConn       == 2   \* connections served concurrently
MaxPosts    == 1   \* posts ever created
MaxListed   == 2   \* posts ever created where the list route is exercised
MaxComments == 1   \* comments ever created
MaxViews    == 2   \* fetches ever issued against one post
MaxCalls    == 3   \* loadPosts calls ever issued by the posts list

Conns == 1..NConn

(***************************************************************************)
(* Optional values and identifiers.                                        *)
(***************************************************************************)
None == <<>>
Some(x) == <<x>>
IsSome(o) == o # <<>>
Get(o) == o[1]

\* A well-formed ObjectId that no document ever has, and a string that does
\* not cast to an ObjectId at all (Mongoose raises CastError on it).
MissingId   == 0
MalformedId == -1

(***************************************************************************)
(* Run-length encoded text.                                                *)
(***************************************************************************)
Txt(ch, n) == IF n = 0 THEN <<>> ELSE <<[ch |-> ch, n |-> n]>>

RECURSIVE TextLen(_)
TextLen(t) == IF t = <<>> THEN 0 ELSE Head(t).n + TextLen(Tail(t))

RECURSIVE TrimStart(_)
TrimStart(t) ==
  IF t = <<>> THEN <<>>
  ELSE IF Head(t).ch = " " THEN TrimStart(Tail(t)) ELSE t

RECURSIVE TrimEnd(_)
TrimEnd(t) ==
  IF t = <<>> THEN <<>>
  ELSE IF t[Len(t)].ch = " " THEN TrimEnd(SubSeq(t, 1, Len(t) - 1)) ELSE t

\* String.prototype.trim
Trim(t) == TrimEnd(TrimStart(t))

\* JavaScript truthiness of an optional string: undefined and "" are falsy.
Truthy(o) == IsSome(o) /\ Get(o) # <<>>

(***************************************************************************)
(* The schemas (models/Post.js, models/Comment.js).                        *)
(***************************************************************************)
TitleMax   == 200
BodyMin    == 10
TagMax     == 50
CommentMin == 1
CommentMax == 1000
Categories ==
  {"General", "Technology", "Development", "Design", "Business", "Lifestyle"}
DefaultCategory == "General"
DefaultViews    == 0

\* postSchema.title: required, trim, maxlength.  `t` is the optional value
\* after the trim setter; an empty string does not satisfy `required`.
TitleErrors(t) ==
  IF ~Truthy(t) THEN <<"Title is required">>
  ELSE IF TextLen(Get(t)) > TitleMax
       THEN <<"Title cannot exceed 200 characters">>
       ELSE <<>>

\* postSchema.body: required, minlength (no trim).
BodyErrors(b) ==
  IF ~Truthy(b) THEN <<"Body content is required">>
  ELSE IF TextLen(Get(b)) < BodyMin
       THEN <<"Body must be at least 10 characters long">>
       ELSE <<>>

\* postSchema.tags: every element trimmed, maxlength; one error per element.
RECURSIVE TagsErrors(_)
TagsErrors(ts) ==
  IF ts = <<>> THEN <<>>
  ELSE (IF TextLen(Head(ts)) > TagMax
        THEN <<"Tag cannot exceed 50 characters">> ELSE <<>>)
       \o TagsErrors(Tail(ts))

\* postSchema.category: enum.
CategoryErrors(cat) ==
  IF cat \in Categories THEN <<>>
  ELSE <<"not a valid enum value for path category">>

\* The schema without validators.
CommentErrorsNotRun(t) == <<>>

\* commentSchema.comment: required, trim, minlength, maxlength.
CommentErrors(t) ==
  IF ~Truthy(t) THEN <<"Comment content is required">>
  ELSE IF TextLen(Get(t)) < CommentMin THEN <<"Comment cannot be empty">>
  ELSE IF TextLen(Get(t)) > CommentMax
       THEN <<"Comment cannot exceed 1000 characters">>
       ELSE <<>>

\* The trim setter of a String path, applied to an optional value.
TrimOpt(o) == IF IsSome(o) THEN Some(Trim(Get(o))) ELSE None

RECURSIVE TrimAll(_)
TrimAll(ts) == IF ts = <<>> THEN <<>> ELSE <<Trim(Head(ts))>> \o TrimAll(Tail(ts))

(***************************************************************************)
(* Users.  The User model and the routes that register users are not part  *)
(* of the modelled sources; the collection is fixed and holds one user per *)
(* role.  GhostId is the identity of a token whose user is not stored.     *)
(***************************************************************************)
Roles   == {"Admin", "Editor", "User"}
UserIds == {"admin", "editor", "user"}
GhostId == "ghost"

RoleOf(u) ==
  CASE u = "admin"  -> "Admin"
    [] u = "editor" -> "Editor"
    [] OTHER        -> "User"

\* User.findById(id).select('-password'): the stored user without password.
SelectNoPassword(u) == [_id |-> u._id, username |-> u.username, role |-> u.role]

\* The look-up without .select('-password').
FindUserWithPassword(id) ==
  IF id \in DOMAIN users THEN Some(users[id]) ELSE None

FindUser(id) ==
  IF id \in DOMAIN users THEN Some(SelectNoPassword(users[id])) ELSE None

(***************************************************************************)
(* Requests.                                                               *)
(***************************************************************************)
PostKinds    == {"getPost", "createPost", "updatePost", "deletePost"}
ListKinds    == {"listPosts"}
CommentKinds == {"createComment", "updateComment", "deleteComment"}
Kinds        == PostKinds \cup CommentKinds
\* routes mounted behind the `auth` middleware
AuthKinds    == Kinds \ {"getPost"}
\* routes mounted behind `auth, editorAuth`
EditorKinds  == {"createPost", "updatePost", "deletePost"}

\* The Authorization header: absent, a token jwt.verify rejects, or a token
\* jwt.verify decodes to { id }.
NoToken      == [kind |-> "absent",  id |-> ""]
BadToken     == [kind |-> "invalid", id |-> ""]
TokenFor(u)  == [kind |-> "valid",   id |-> u]
Tokens       == {NoToken, BadToken} \cup {TokenFor(u) : u \in UserIds \cup {GhostId}}

NoBody ==
  [title |-> None, body |-> None, tags |-> None, category |-> None,
   author |-> None, views |-> None, postID |-> None, comment |-> None]

\* The query string of GET /api/posts.  `sortBy` and `sortOrder` are left
\* absent: the default sort (createdAt, desc).
NoQuery ==
  [category |-> None, tag |-> None, search |-> None, page |-> None, limit |-> None]

\* Request bodies of POST /api/posts and PUT /api/posts/:id: the scenario
\* post (no tags, no category) and one whose body is too short.
HelloBody == [NoBody EXCEPT !.title = Some(Txt("a", 5)), !.body = Some(Txt("b", 20))]
ShortBody == [NoBody EXCEPT !.title = Some(Txt("a", 5)), !.body = Some(Txt("b", 5))]
PostBodies == {HelloBody, ShortBody}

\* client/src/App.js, PostEditor.handleSubmit: the tags typed in the editor,
\* formData.tags.split(',').map(tag => tag.trim()).filter(tag => tag).
RECURSIVE SplitComma(_, _)
SplitComma(t, cur) ==
  IF t = <<>> THEN <<cur>>
  ELSE IF Head(t).ch = ","
       THEN <<cur>> \o SplitComma(IF Head(t).n > 1
                                  THEN <<[ch |-> ",", n |-> Head(t).n - 1]>> \o Tail(t)
                                  ELSE Tail(t), <<>>)
       ELSE SplitComma(Tail(t), Append(cur, Head(t)))

NonEmpty(t) == t # <<>>

EditorTags(text) == SelectSeq(TrimAll(SplitComma(text, <<>>)), NonEmpty)

\* The text "a, b, b" typed in the editor's tags field.
TagsText ==
  Txt("a", 1) \o Txt(",", 1) \o Txt(" ", 1) \o Txt("b", 1)
    \o Txt(",", 1) \o Txt(" ", 1) \o Txt("b", 1)

\* The body the editor sends: title, body, category and the tags split.
EditorBody ==
  [HelloBody EXCEPT !.category = Some("Technology"),
                    !.tags = Some(EditorTags(TagsText))]

\* Bodies sent to the API directly: tags that are not trimmed; a title
\* alone (padded with a blank); a category alone; four violated fields; and
\* a valid body that also names an author and a view count.
RawTagsBody ==
  [HelloBody EXCEPT !.tags = Some(<<Txt(" ", 1) \o Txt("a", 1),
                                    Txt("b", 1) \o Txt(" ", 2),
                                    Txt("b", 1)>>)]
TitleOnlyBody    == [NoBody EXCEPT !.title = Some(Txt(" ", 1) \o Txt("t", 3))]
CategoryOnlyBody == [NoBody EXCEPT !.category = Some("Design")]
BadBody ==
  [NoBody EXCEPT !.title = Some(Txt("x", TitleMax + 1)),
                 !.body = Some(Txt("y", BodyMin - 1)),
                 !.tags = Some(<<Txt("z", TagMax + 1)>>),
                 !.category = Some("Bogus")]
HijackBody == [HelloBody EXCEPT !.author = Some("user"), !.views = Some(7)]
FieldBodies ==
  {HelloBody, EditorBody, RawTagsBody, TitleOnlyBody, CategoryOnlyBody,
   BadBody, HijackBody}

\* Query strings of GET /api/posts: category absent, empty, the sentinel
\* 'all', or a category name; no tag or the tag b; the default page or
\* page 1, 2 or 3; the default limit or a limit of 1 or 2.
ListQueries ==
  { [category |-> cat, tag |-> tg, search |-> None, page |-> pg, limit |-> lim] :
      cat \in {None, Some(""), Some("all"), Some("General"),
               Some("Technology"), Some("Design")},
      tg  \in {None, Some(Txt("b", 1))},
      pg  \in {None, Some(1), Some(2), Some(3)},
      lim \in {None, Some(1), Some(2)} }

\* The `comment` field of POST /api/comments and PUT /api/comments/:id.
CommentTexts ==
  { Some(Txt("c", 3)), Some(Txt("c", CommentMax + 1)), Some(<<>>), None }

\* Comment texts of every shape: plain, padded with blanks, of the greatest
\* length allowed once trimmed, one character longer, blank, empty, absent.
PaddedText == Txt(" ", 2) \o Txt("c", 2) \o Txt(" ", 1)
CommentFieldTexts ==
  { Some(Txt("c", 3)), Some(PaddedText),
    Some(Txt(" ", 1) \o Txt("m", CommentMax)), Some(Txt("c", CommentMax + 1)),
    Some(Txt(" ", 3)), Some(<<>>), None }

\* What the clients of a specification send: the Authorization headers,
\* the identifiers that name no document, and the request bodies.
AllInputs ==
  [tokens |-> Tokens, noDoc |-> {MissingId, MalformedId},
   postBodies |-> PostBodies, commentTexts |-> CommentTexts,
   maxPosts |-> MaxPosts, queries |-> {}]
UserTokens == {TokenFor(u) : u \in UserIds}
FieldInputs ==
  [tokens |-> {TokenFor("admin"), TokenFor("editor")}, noDoc |-> {MissingId},
   postBodies |-> FieldBodies, commentTexts |-> {},
   maxPosts |-> MaxPosts, queries |-> {}]
CommentFieldInputs ==
  [tokens |-> {TokenFor("admin"), TokenFor("user")}, noDoc |-> {MissingId},
   postBodies |-> {HelloBody}, commentTexts |-> CommentFieldTexts,
   maxPosts |-> MaxPosts, queries |-> {}]
ListInputs ==
  [tokens |-> {TokenFor("admin")}, noDoc |-> {},
   postBodies |-> {HelloBody, EditorBody}, commentTexts |-> {},
   maxPosts |-> MaxListed, queries |-> ListQueries]
ViewInputs ==
  [tokens |-> {TokenFor("admin")}, noDoc |-> {MissingId},
   postBodies |-> {HelloBody}, commentTexts |-> {},
   maxPosts |-> MaxPosts, queries |-> {}]
RaceInputs ==
  [tokens |-> {TokenFor("admin")}, noDoc |-> {MissingId},
   postBodies |-> {HelloBody, EditorBody}, commentTexts |-> {},
   maxPosts |-> MaxPosts, queries |-> {}]
CommentInputs ==
  [tokens |-> UserTokens, noDoc |-> {MissingId},
   postBodies |-> {HelloBody}, commentTexts |-> {Some(Txt("c", 3)), Some(<<>>)},
   maxPosts |-> MaxPosts, queries |-> {}]

Idle ==
  [kind |-> "none", pc |-> "idle", token |-> NoToken, user |-> None,
   id |-> MissingId, body |-> NoBody, query |-> NoQuery, found |-> None,
   status |-> 0, out |-> None, errors |-> <<>>]

\* res.status(s).json(...): the request is answered and the handler returns.
Respond(r, s) == [r EXCEPT !.pc = "done", !.status = s]

\* client/src/App.js, PostsList: the state of the component at its first
\* render (the useState initial values), with no request of its own in
\* flight.  `calls` holds, per connection, the call of the component that
\* awaits the response; `issued` counts the loadPosts calls and `latest` holds
\* the posts of the response to the last one issued, once it has arrived.
NoCall == [kind |-> "none", seq |-> 0, closure |-> None]
UiInit ==
  [mounted |-> FALSE, posts |-> <<>>, loading |-> TRUE, searchLoading |-> FALSE,
   editingPost |-> None, calls |-> [c \in Conns |-> NoCall],
   issued |-> 0, latest |-> None]

StoredUsers ==
  [u \in UserIds |->
     [_id |-> u, username |-> u, role |-> RoleOf(u), password |-> "hash"]]

Init ==
  /\ users = StoredUsers
  /\ posts = <<>>
  /\ comments = <<>>
  /\ nextPostId = 1
  /\ nextCommentId = 1
  /\ req = [c \in Conns |-> Idle]
  /\ ui = UiInit

(***************************************************************************)
(* Store helpers.                                                          *)
(***************************************************************************)
Remove(f, id) == [i \in DOMAIN f \ {id} |-> f[i]]
Insert(f, id, doc) == [i \in DOMAIN f \cup {id} |-> IF i = id THEN doc ELSE f[i]]

\* .populate('author', ...): the author reference replaced by the user joined.
PopulateAuthor(doc) ==
  [doc EXCEPT !.author =
     IF doc.author \in DOMAIN users
     THEN [_id |-> doc.author, username |-> users[doc.author].username]
     ELSE [_id |-> doc.author, username |-> ""]]

\* .populate('userID', 'username')
PopulateUser(doc) ==
  [doc EXCEPT !.userID =
     IF doc.userID \in DOMAIN users
     THEN [_id |-> doc.userID, username |-> users[doc.userID].username]
     ELSE [_id |-> doc.userID, username |-> ""]]

\* Requests in flight of one of the kinds `ks`.
InFlight(ks) == {d \in Conns : req[d].kind \in ks /\ req[d].pc \notin {"idle", "done"}}

\* Identifiers a client can put in a URL or a body: one it was given, a
\* well-formed one that names nothing, or one that is not well-formed.
PostIdInputs(in)    == (1..(nextPostId - 1)) \cup in.noDoc
CommentIdInputs(in) == (1..(nextCommentId - 1)) \cup in.noDoc

(***************************************************************************)
(* middleware/auth.js                                                      *)
(***************************************************************************)
\* editorAuth without the `return`: next() is reached for every role.
editorAuthFallsThrough(user) == TRUE

\* editorAuth lets the request through iff the role is Admin or Editor.
editorAuth(user) == ~(user.role # "Admin" /\ user.role # "Editor")

\* The owner test replaced by a role test: any Editor passes.
isAuthorOrAdminByRole(post, user) == user.role \in {"Admin", "Editor"}

\* The owner test dropped: only an Admin passes.
isAuthorOrAdminAdminOnly(post, user) == user.role = "Admin"

\* The owner-or-admin test of the post handlers (update and delete).
isAuthorOrAdmin(post, user) ==
  ~(post.author # user._id /\ user.role # "Admin")

\* The owner test of the comment handlers dropped: every caller passes.
isCommenterOrAdminAnyone(comment, user) == TRUE

\* The owner-or-admin test of the comment handlers (update and delete).
isCommenterOrAdmin(comment, user) ==
  ~(comment.userID # user._id /\ user.role # "Admin")

\* The synchronous start of the handler that runs once the middleware chain
\* called next(): everything up to its first `await`.
HandlerStart(r) ==
  CASE r.kind = "createPost" -> [r EXCEPT !.pc = "write"]
    [] r.kind = "createComment" ->
         IF ~IsSome(r.body.postID) \/ ~Truthy(r.body.comment)
         THEN Respond(r, 400) ELSE [r EXCEPT !.pc = "find"]
    [] r.kind = "updateComment" ->
         IF ~Truthy(r.body.comment) \/ Trim(Get(r.body.comment)) = <<>>
         THEN Respond(r, 400) ELSE [r EXCEPT !.pc = "find"]
    [] OTHER -> [r EXCEPT !.pc = "find"]

\* auth, first slice: read the header, jwt.verify, issue User.findById.
authToken(r) ==
  IF r.token.kind = "absent" THEN Respond(r, 401)
  ELSE IF r.token.kind = "invalid" THEN Respond(r, 401)
  ELSE [r EXCEPT !.pc = "auth"]

\* The comment text checked before the user: a request without a text is
\* answered 400 whoever sends it.
authUserAfterBodyCheck(r, user) ==
  IF r.kind \in {"createComment", "updateComment"} /\ ~Truthy(r.body.comment)
  THEN Respond(r, 400)
  ELSE IF ~IsSome(user) THEN Respond(r, 401)
  ELSE LET r1 == [r EXCEPT !.user = user] IN
       IF r.kind \in EditorKinds /\ ~editorAuth(Get(user))
       THEN Respond(r1, 403)
       ELSE HandlerStart(r1)

\* auth, second slice: the user looked up; 401 if none, else req.user is set
\* and next() runs editorAuth (where mounted) and the handler's start.
authUser(r, user) ==
  IF ~IsSome(user) THEN Respond(r, 401)
  ELSE LET r1 == [r EXCEPT !.user = user] IN
       IF r.kind \in EditorKinds /\ ~editorAuth(Get(user))
       THEN Respond(r1, 403)
       ELSE HandlerStart(r1)

\* A connection takes a new request once the response to the previous one
\* was read.
Free(c) == req[c].pc = "idle"

Frame == UNCHANGED <<ui, users, posts, comments, nextPostId, nextCommentId>>

\* GET /api/posts arrives (no middleware): the filter is built and Post.find
\* is issued.
RequestListPosts(c, in) ==
  /\ Free(c)
  /\ \E q \in in.queries :
       req' = [req EXCEPT ![c] =
                 [Idle EXCEPT !.kind = "listPosts", !.query = q, !.pc = "find"]]
  /\ Frame

\* GET /api/posts/:id arrives (no middleware): Post.findById is issued.
RequestGetPost(c, in) ==
  /\ Free(c)
  /\ \E pid \in PostIdInputs(in) :
       /\ pid \in DOMAIN posts =>
            posts[pid].views
              + Cardinality({d \in InFlight({"getPost"}) : req[d].id = pid})
              < MaxViews
       /\ req' = [req EXCEPT ![c] =
                    [Idle EXCEPT !.kind = "getPost", !.id = pid, !.pc = "find"]]
  /\ Frame

\* POST /api/posts arrives.
RequestCreatePost(c, in) ==
  /\ Free(c)
  /\ nextPostId + Cardinality(InFlight({"createPost"})) <= in.maxPosts
  /\ \E token \in in.tokens, pb \in in.postBodies :
       req' = [req EXCEPT ![c] =
                 authToken([Idle EXCEPT !.kind = "createPost",
                                        !.token = token, !.body = pb])]
  /\ Frame

\* PUT /api/posts/:id arrives.
RequestUpdatePost(c, in) ==
  /\ Free(c)
  /\ \E token \in in.tokens, pid \in PostIdInputs(in), pb \in in.postBodies :
       req' = [req EXCEPT ![c] =
                 authToken([Idle EXCEPT !.kind = "updatePost", !.token = token,
                                        !.id = pid, !.body = pb])]
  /\ Frame

\* DELETE /api/posts/:id arrives.
RequestDeletePost(c, in) ==
  /\ Free(c)
  /\ \E token \in in.tokens, pid \in PostIdInputs(in) :
       req' = [req EXCEPT ![c] =
                 authToken([Idle EXCEPT !.kind = "deletePost", !.token = token,
                                        !.id = pid])]
  /\ Frame

\* POST /api/comments arrives.
RequestCreateComment(c, in) ==
  /\ Free(c)
  /\ nextCommentId + Cardinality(InFlight({"createComment"})) <= MaxComments
  /\ \E token \in in.tokens, ct \in in.commentTexts,
        po \in {None} \cup {Some(pid) : pid \in PostIdInputs(in)} :
       req' = [req EXCEPT ![c] =
                 authToken([Idle EXCEPT !.kind = "createComment", !.token = token,
                                        !.body = [NoBody EXCEPT !.postID = po,
                                                                !.comment = ct]])]
  /\ Frame

\* PUT /api/comments/:id arrives.
RequestUpdateComment(c, in) ==
  /\ Free(c)
  /\ \E token \in in.tokens, cid \in CommentIdInputs(in), ct \in in.commentTexts :
       req' = [req EXCEPT ![c] =
                 authToken([Idle EXCEPT !.kind = "updateComment", !.token = token,
                                        !.id = cid,
                                        !.body = [NoBody EXCEPT !.comment = ct]])]
  /\ Frame

\* DELETE /api/comments/:id arrives.
RequestDeleteComment(c, in) ==
  /\ Free(c)
  /\ \E token \in in.tokens, cid \in CommentIdInputs(in) :
       req' = [req EXCEPT ![c] =
                 authToken([Idle EXCEPT !.kind = "deleteComment", !.token = token,
                                        !.id = cid])]
  /\ Frame

\* The client has read the response; the request and its locals are gone.
Release(c) ==
  /\ req[c].pc = "done"
  /\ req' = [req EXCEPT ![c] = Idle]
  /\ Frame

\* User.findById resolves for the request on connection c.
AuthLookup(c) ==
  /\ req[c].pc = "auth"
  /\ req' = [req EXCEPT ![c] = authUser(req[c], FindUser(req[c].token.id))]
  /\ Frame

(***************************************************************************)
(* routes/posts.js                                                         *)
(***************************************************************************)
\* GET /: `page = 1, limit = 10` of the destructuring, parseInt applied.
DefaultPage  == 1
DefaultLimit == 10
PageOf(q)  == IF IsSome(q.page) THEN Get(q.page) ELSE DefaultPage
LimitOf(q) == IF IsSome(q.limit) THEN Get(q.limit) ELSE DefaultLimit

\* The quotient rounded down.
CeilRoundedDown(total, limit) == total \div limit

\* Math.ceil(total / limit)
Ceil(total, limit) == (total + limit - 1) \div limit

\* The filter without the category test.
ListFilterNoCategory(q) ==
  [category |-> None, tags |-> IF Truthy(q.tag) THEN q.tag ELSE None,
   text |-> IF Truthy(q.search) THEN q.search ELSE None]

\* GET /: the filter built from the query string.  `category` restricts the
\* result when it is truthy and not 'all', `tag` and `search` when truthy.
ListFilter(q) ==
  [category |-> IF IsSome(q.category) /\ Get(q.category) # ""
                   /\ Get(q.category) # "all"
                THEN q.category ELSE None,
   tags     |-> IF Truthy(q.tag) THEN q.tag ELSE None,
   text     |-> IF Truthy(q.search) THEN q.search ELSE None]

\* The words of a text: the runs between blanks and commas.
RECURSIVE WordsFrom(_, _)
WordsFrom(t, cur) ==
  LET done == IF cur = <<>> THEN {} ELSE {cur} IN
  IF t = <<>> THEN done
  ELSE IF Head(t).ch \in {" ", ","} THEN done \cup WordsFrom(Tail(t), <<>>)
       ELSE WordsFrom(Tail(t), Append(cur, Head(t)))

Words(t) == WordsFrom(t, <<>>)

\* models/Post.js, the text index on title, body and tags, and
\* { $text: { $search } }: a document matches when one of the words searched
\* for is a word of an indexed field.
TextSearch(doc, term) ==
  \E w \in Words(term) :
    \/ w \in Words(doc.title)
    \/ w \in Words(doc.body)
    \/ \E i \in DOMAIN doc.tags : w \in Words(doc.tags[i])

\* The documents Post.find(query) / Post.countDocuments(query) select:
\* equality on category, { $in: [tag] } on the tags array, the text index.
Matches(doc, f) ==
  /\ IsSome(f.category) => doc.category = Get(f.category)
  /\ IsSome(f.tags) => \E i \in DOMAIN doc.tags : doc.tags[i] = Get(f.tags)
  /\ IsSome(f.text) => TextSearch(doc, Get(f.text))

Matching(f) == {i \in DOMAIN posts : Matches(posts[i], f)}

\* .sort({ createdAt: -1 }): the newest document first.  Identifiers are
\* handed out in creation order.
RECURSIVE NewestFirst(_)
NewestFirst(ids) ==
  IF ids = {} THEN <<>>
  ELSE LET m == CHOOSE i \in ids : \A j \in ids : j <= i
       IN <<m>> \o NewestFirst(ids \ {m})

\* .limit(limit).skip(skip)
Window(seq, skip, limit) ==
  IF skip >= Len(seq) THEN <<>>
  ELSE SubSeq(seq, skip + 1, IF skip + limit < Len(seq) THEN skip + limit ELSE Len(seq))

\* .populate('author', 'username').lean(): the plain document with its _id.
Lean(id) == [_id |-> id, doc |-> PopulateAuthor(posts[id])]

\* GET /, Post.find(query)...lean() resolves with the page of documents.
ListPostsFind(c) ==
  /\ req[c].kind = "listPosts" /\ req[c].pc = "find"
  /\ req' = [req EXCEPT ![c] =
       LET r     == req[c]
           limit == LimitOf(r.query)
           page  == Window(NewestFirst(Matching(ListFilter(r.query))),
                           (PageOf(r.query) - 1) * limit, limit)
       IN [r EXCEPT !.found = Some([items |-> [k \in DOMAIN page |-> Lean(page[k])]]),
                    !.pc = "write"]]
  /\ Frame

\* GET /, Post.countDocuments(query) resolves; the response is sent.
ListPostsCount(c) ==
  /\ req[c].kind = "listPosts" /\ req[c].pc = "write"
  /\ req' = [req EXCEPT ![c] =
       LET r     == req[c]
           total == Cardinality(Matching(ListFilter(r.query)))
           page  == PageOf(r.query)
           limit == LimitOf(r.query)
       IN Respond([r EXCEPT !.out = Some(
            [posts      |-> Get(r.found).items,
             pagination |-> [currentPage |-> page,
                             totalPages  |-> Ceil(total, limit),
                             totalPosts  |-> total,
                             hasNextPage |-> page < Ceil(total, limit),
                             hasPrevPage |-> page > 1]])], 200)]
  /\ Frame

\* GET /:id, Post.findById(...).populate(...) resolves.
GetPostFind(c) ==
  /\ req[c].kind = "getPost" /\ req[c].pc = "find"
  /\ req' = [req EXCEPT ![c] =
       LET r == req[c] IN
       IF r.id = MalformedId THEN Respond(r, 400)          \* CastError
       ELSE IF r.id \notin DOMAIN posts THEN Respond(r, 404)
       ELSE [r EXCEPT !.found = Some(PopulateAuthor(posts[r.id])),
                      !.pc = "write"]]
  /\ Frame

\* The increment done in the handler: post.views + 1 of the document read
\* before is written back.
GetPostIncReadThenWrite(c) ==
  /\ req[c].kind = "getPost" /\ req[c].pc = "write"
  /\ posts' = IF req[c].id \in DOMAIN posts
              THEN [posts EXCEPT ![req[c].id].views = Get(req[c].found).views + 1]
              ELSE posts
  /\ req' = [req EXCEPT ![c] = Respond([req[c] EXCEPT !.out = req[c].found], 200)]
  /\ UNCHANGED <<ui, users, comments, nextPostId, nextCommentId>>

\* The handler that answers with the document the increment returns.
GetPostIncAnswerUpdated(c) ==
  /\ req[c].kind = "getPost" /\ req[c].pc = "write"
  /\ posts' = IF req[c].id \in DOMAIN posts
              THEN [posts EXCEPT ![req[c].id].views = @ + 1]
              ELSE posts
  /\ req' = [req EXCEPT ![c] =
       Respond([req[c] EXCEPT !.out =
         IF req[c].id \in DOMAIN posts
         THEN Some(PopulateAuthor(posts'[req[c].id])) ELSE req[c].found], 200)]
  /\ UNCHANGED <<ui, users, comments, nextPostId, nextCommentId>>

\* GET /:id, Post.findByIdAndUpdate(id, { $inc: { views: 1 } }) resolves: the
\* store adds 1 to the counter it holds; the response carries the document
\* read before.
GetPostInc(c) ==
  /\ req[c].kind = "getPost" /\ req[c].pc = "write"
  /\ posts' = IF req[c].id \in DOMAIN posts
              THEN [posts EXCEPT ![req[c].id].views = @ + 1]
              ELSE posts
  /\ req' = [req EXCEPT ![c] = Respond([req[c] EXCEPT !.out = req[c].found], 200)]
  /\ UNCHANGED <<ui, users, comments, nextPostId, nextCommentId>>

\* A tag list with the repeated tags dropped.
RECURSIVE Dedup(_)
Dedup(ts) ==
  IF ts = <<>> THEN <<>>
  ELSE LET init == Dedup(SubSeq(ts, 1, Len(ts) - 1))
           last == ts[Len(ts)]
       IN IF \E i \in DOMAIN init : init[i] = last THEN init ELSE Append(init, last)

\* The post built with its tags deduplicated.
NewPostDedupTags(body, user) ==
  [title    |-> TrimOpt(body.title),
   body     |-> body.body,
   author   |-> user._id,
   tags     |-> IF IsSome(body.tags) THEN Dedup(TrimAll(Get(body.tags))) ELSE <<>>,
   category |-> IF IsSome(body.category) /\ Get(body.category) # ""
                THEN Get(body.category) ELSE DefaultCategory,
   views    |-> DefaultViews]

\* new Post({ title, body, author, tags: tags || [], category: category || 'General' })
\* with the schema's setters and defaults applied.
NewPost(body, user) ==
  [title    |-> TrimOpt(body.title),
   body     |-> body.body,
   author   |-> user._id,
   tags     |-> IF IsSome(body.tags) THEN TrimAll(Get(body.tags)) ELSE <<>>,
   category |-> IF IsSome(body.category) /\ Get(body.category) # ""
                THEN Get(body.category) ELSE DefaultCategory,
   views    |-> DefaultViews]

\* Document validation on save().
PostSaveErrors(doc) ==
  TitleErrors(doc.title) \o BodyErrors(doc.body)
    \o TagsErrors(doc.tags) \o CategoryErrors(doc.category)

\* The document as stored: required paths hold their value.
Stored(doc) == [doc EXCEPT !.title = Get(@), !.body = Get(@)]

\* The save that inserts the document before it validates it: a rejected
\* post is answered 400 and stays stored.
CreatePostSaveThenValidate(c) ==
  /\ req[c].kind = "createPost" /\ req[c].pc = "write"
  /\ LET doc  == NewPost(req[c].body, Get(req[c].user))
         errs == PostSaveErrors(doc)
     IN /\ posts' = Insert(posts, nextPostId, Stored(doc))
        /\ nextPostId' = nextPostId + 1
        /\ req' = [req EXCEPT ![c] =
             IF errs # <<>>
             THEN Respond([req[c] EXCEPT !.errors = errs], 400)
             ELSE Respond([req[c] EXCEPT !.id = nextPostId,
                                  !.out = Some(PopulateAuthor(Stored(doc)))], 201)]
  /\ UNCHANGED <<ui, users, comments, nextCommentId>>

\* POST /, post.save() resolves or rejects with a ValidationError.
CreatePostSave(c) ==
  /\ req[c].kind = "createPost" /\ req[c].pc = "write"
  /\ LET doc  == NewPost(req[c].body, Get(req[c].user))
         errs == PostSaveErrors(doc)
     IN IF errs # <<>>
        THEN /\ req' = [req EXCEPT ![c] = Respond([req[c] EXCEPT !.errors = errs], 400)]
             /\ UNCHANGED <<posts, nextPostId>>
        ELSE /\ posts' = Insert(posts, nextPostId, Stored(doc))
             /\ nextPostId' = nextPostId + 1
             /\ req' = [req EXCEPT ![c] =
                  Respond([req[c] EXCEPT !.id = nextPostId,
                                    !.out = Some(PopulateAuthor(Stored(doc)))], 201)]
  /\ UNCHANGED <<ui, users, comments, nextCommentId>>

\* PUT /:id and DELETE /:id, Post.findById resolves; then the owner check.
\* A CastError is not classified by these handlers' catch blocks: 500.
PostFindAndAuthorize(r) ==
  IF r.id = MalformedId THEN Respond(r, 500)
  ELSE IF r.id \notin DOMAIN posts THEN Respond(r, 404)
  ELSE IF ~isAuthorOrAdmin(posts[r.id], Get(r.user)) THEN Respond(r, 403)
  ELSE [r EXCEPT !.pc = "write"]

UpdatePostFind(c) ==
  /\ req[c].kind = "updatePost" /\ req[c].pc = "find"
  /\ req' = [req EXCEPT ![c] = PostFindAndAuthorize(req[c])]
  /\ Frame

\* The whole request body passed as the update document.
PostUpdateDocWholeBody(body) ==
  [title    |-> TrimOpt(body.title),
   body     |-> body.body,
   tags     |-> IF IsSome(body.tags) THEN Some(TrimAll(Get(body.tags))) ELSE None,
   category |-> body.category,
   author   |-> body.author,
   views    |-> body.views]

\* The update document { title, body, tags, category } after casting: keys
\* whose value is undefined are dropped, setters are applied.
PostUpdateDoc(body) ==
  [title    |-> TrimOpt(body.title),
   body     |-> body.body,
   tags     |-> IF IsSome(body.tags) THEN Some(TrimAll(Get(body.tags))) ELSE None,
   category |-> body.category]

\* The update without runValidators: nothing is validated.
PostUpdateErrorsNotRun(u) == <<>>

\* Validation that stops at the first path that fails.
PostUpdateErrorsFirstOnly(u) ==
  LET all == (IF IsSome(u.title) THEN TitleErrors(u.title) ELSE <<>>)
               \o (IF IsSome(u.body) THEN BodyErrors(u.body) ELSE <<>>)
               \o (IF IsSome(u.tags) THEN TagsErrors(Get(u.tags)) ELSE <<>>)
               \o (IF IsSome(u.category) THEN CategoryErrors(Get(u.category)) ELSE <<>>)
  IN IF all = <<>> THEN <<>> ELSE <<Head(all)>>

\* runValidators: the validators of the paths the update sets.
PostUpdateErrors(u) ==
  (IF IsSome(u.title) THEN TitleErrors(u.title) ELSE <<>>)
    \o (IF IsSome(u.body) THEN BodyErrors(u.body) ELSE <<>>)
    \o (IF IsSome(u.tags) THEN TagsErrors(Get(u.tags)) ELSE <<>>)
    \o (IF IsSome(u.category) THEN CategoryErrors(Get(u.category)) ELSE <<>>)

\* The update applied as a replacement: paths it does not hold fall back to
\* the schema's defaults.
ApplyPostUpdateOverwrite(doc, u) ==
  [k \in DOMAIN doc |->
     IF k \in DOMAIN u /\ IsSome(u[k]) THEN Get(u[k])
     ELSE IF k = "views" THEN DefaultViews
     ELSE IF k = "category" THEN DefaultCategory
     ELSE IF k = "tags" THEN <<>>
     ELSE doc[k]]

\* $set of the paths the update holds.
ApplyPostUpdate(doc, u) ==
  [k \in DOMAIN doc |->
     IF k \in DOMAIN u /\ IsSome(u[k]) THEN Get(u[k]) ELSE doc[k]]

\* PUT /:id, Post.findByIdAndUpdate(id, {...}, { new: true, runValidators: true })
\* resolves (with the updated document, or null when no document has the id)
\* or rejects with a ValidationError.
UpdatePostWrite(c) ==
  /\ req[c].kind = "updatePost" /\ req[c].pc = "write"
  /\ LET id   == req[c].id
         u    == PostUpdateDoc(req[c].body)
         errs == PostUpdateErrors(u)
     IN IF errs # <<>>
        THEN /\ req' = [req EXCEPT ![c] = Respond([req[c] EXCEPT !.errors = errs], 400)]
             /\ UNCHANGED posts
        ELSE IF id \in DOMAIN posts
        THEN /\ posts' = [posts EXCEPT ![id] = ApplyPostUpdate(@, u)]
             /\ req' = [req EXCEPT ![c] =
                  Respond([req[c] EXCEPT !.out =
                    Some(PopulateAuthor(ApplyPostUpdate(posts[id], u)))], 200)]
        ELSE /\ req' = [req EXCEPT ![c] = Respond([req[c] EXCEPT !.out = None], 200)]
             /\ UNCHANGED posts
  /\ UNCHANGED <<ui, users, comments, nextPostId, nextCommentId>>

DeletePostFind(c) ==
  /\ req[c].kind = "deletePost" /\ req[c].pc = "find"
  /\ req' = [req EXCEPT ![c] = PostFindAndAuthorize(req[c])]
  /\ Frame

\* The delete that answers 200 without removing the document.
DeletePostRemoveNothing(c) ==
  /\ req[c].kind = "deletePost" /\ req[c].pc = "write"
  /\ req' = [req EXCEPT ![c] = Respond(req[c], 200)]
  /\ UNCHANGED <<ui, users, posts, comments, nextPostId, nextCommentId>>

\* The delete that also removes the comments of the post.
DeletePostRemoveCascade(c) ==
  /\ req[c].kind = "deletePost" /\ req[c].pc = "write"
  /\ posts' = Remove(posts, req[c].id)
  /\ comments' = [i \in {j \in DOMAIN comments : comments[j].postID # req[c].id}
                   |-> comments[i]]
  /\ req' = [req EXCEPT ![c] = Respond(req[c], 200)]
  /\ UNCHANGED <<ui, users, nextPostId, nextCommentId>>

\* DELETE /:id, Post.findByIdAndDelete(id) resolves.
DeletePostRemove(c) ==
  /\ req[c].kind = "deletePost" /\ req[c].pc = "write"
  /\ posts' = Remove(posts, req[c].id)
  /\ req' = [req EXCEPT ![c] = Respond(req[c], 200)]
  /\ UNCHANGED <<ui, users, comments, nextPostId, nextCommentId>>

(***************************************************************************)
(* routes/comments.js                                                      *)
(***************************************************************************)
\* The handler without its `if (!post)` answer: the comment is saved whether
\* or not the post exists.
CreateCommentFindUnchecked(c) ==
  /\ req[c].kind = "createComment" /\ req[c].pc = "find"
  /\ req' = [req EXCEPT ![c] =
       IF Get(req[c].body.postID) = MalformedId THEN Respond(req[c], 500)
       ELSE [req[c] EXCEPT !.pc = "write"]]
  /\ Frame

\* POST /, Post.findById(postID) resolves.  A CastError is not classified
\* by this handler's catch block: 500.
CreateCommentFind(c) ==
  /\ req[c].kind = "createComment" /\ req[c].pc = "find"
  /\ req' = [req EXCEPT ![c] =
       LET r      == req[c]
           postID == Get(r.body.postID) IN
       IF postID = MalformedId THEN Respond(r, 500)
       ELSE IF postID \notin DOMAIN posts THEN Respond(r, 404)
       ELSE [r EXCEPT !.pc = "write"]]
  /\ Frame

\* new Comment({ postID, userID: req.user._id, comment: comment.trim() })
NewComment(body, user) ==
  [postID  |-> Get(body.postID),
   userID  |-> user._id,
   comment |-> Trim(Trim(Get(body.comment)))]

\* POST /, newComment.save() resolves or rejects with a ValidationError.
CreateCommentSave(c) ==
  /\ req[c].kind = "createComment" /\ req[c].pc = "write"
  /\ LET doc  == NewComment(req[c].body, Get(req[c].user))
         errs == CommentErrors(Some(doc.comment))
     IN IF errs # <<>>
        THEN /\ req' = [req EXCEPT ![c] = Respond([req[c] EXCEPT !.errors = errs], 400)]
             /\ UNCHANGED <<comments, nextCommentId>>
        ELSE /\ comments' = Insert(comments, nextCommentId, doc)
             /\ nextCommentId' = nextCommentId + 1
             /\ req' = [req EXCEPT ![c] =
                  Respond([req[c] EXCEPT !.id = nextCommentId,
                                    !.out = Some(PopulateUser(doc))], 201)]
  /\ UNCHANGED <<ui, users, posts, nextPostId>>

\* PUT /:id and DELETE /:id, Comment.findById resolves; then the owner check.
\* Neither catch block classifies any error: a CastError is a 500.
CommentFindAndAuthorize(r) ==
  IF r.id = MalformedId THEN Respond(r, 500)
  ELSE IF r.id \notin DOMAIN comments THEN Respond(r, 404)
  ELSE IF ~isCommenterOrAdmin(comments[r.id], Get(r.user)) THEN Respond(r, 403)
  ELSE [r EXCEPT !.pc = "write"]

UpdateCommentFind(c) ==
  /\ req[c].kind = "updateComment" /\ req[c].pc = "find"
  /\ req' = [req EXCEPT ![c] = CommentFindAndAuthorize(req[c])]
  /\ Frame

\* PUT /:id, Comment.findByIdAndUpdate(id, { comment: comment.trim() },
\* { new: true, runValidators: true }) resolves or rejects; the catch block
\* answers every rejection, a ValidationError included, with 500.
UpdateCommentWrite(c) ==
  /\ req[c].kind = "updateComment" /\ req[c].pc = "write"
  /\ LET id   == req[c].id
         text == Trim(Trim(Get(req[c].body.comment)))
         errs == CommentErrors(Some(text))
     IN IF errs # <<>>
        THEN /\ req' = [req EXCEPT ![c] = Respond(req[c], 500)]
             /\ UNCHANGED comments
        ELSE IF id \in DOMAIN comments
        THEN /\ comments' = [comments EXCEPT ![id].comment = text]
             /\ req' = [req EXCEPT ![c] =
                  Respond([req[c] EXCEPT !.out =
                    Some(PopulateUser([comments[id] EXCEPT !.comment = text]))], 200)]
        ELSE /\ req' = [req EXCEPT ![c] = Respond([req[c] EXCEPT !.out = None], 200)]
             /\ UNCHANGED comments
  /\ UNCHANGED <<ui, users, posts, nextPostId, nextCommentId>>

DeleteCommentFind(c) ==
  /\ req[c].kind = "deleteComment" /\ req[c].pc = "find"
  /\ req' = [req EXCEPT ![c] = CommentFindAndAuthorize(req[c])]
  /\ Frame

\* DELETE /:id, Comment.findByIdAndDelete(id) resolves.
DeleteCommentRemove(c) ==
  /\ req[c].kind = "deleteComment" /\ req[c].pc = "write"
  /\ comments' = Remove(comments, req[c].id)
  /\ req' = [req EXCEPT ![c] = Respond(req[c], 200)]
  /\ UNCHANGED <<ui, users, posts, nextPostId, nextCommentId>>

(***************************************************************************)
(* client/src/App.js: the PostsList component, its SearchAndFilter and     *)
(* PostEditor children, and the requests they send.  The user of the       *)
(* session is the Admin.  An event handler runs to its first await in one  *)
(* step; what follows the await runs in one step when the response has     *)
(* arrived.                                                                *)
(***************************************************************************)
SessionToken == TokenFor("admin")

\* What is typed in the search box, and the options of the category select.
SearchTerms      == {Txt(" ", 1), Txt(" ", 1) \o Txt("b", 1)}
FilterCategories == {"", "Technology", "Design"}

\* What is typed in the editor: the fields of EditorBody with another
\* title, and the same with a body that is too short.
ClientForms ==
  {[EditorBody EXCEPT !.title = Some(Txt("a", 6))],
   [EditorBody EXCEPT !.body = Some(Txt("b", 5))]}

\* handleSearch: searchTerm ? { search: searchTerm } : {}
SearchParams(term) ==
  IF term # <<>> THEN [NoQuery EXCEPT !.search = Some(term)] ELSE NoQuery

\* handleFilter: category ? { category } : {}
FilterParams(category) ==
  IF category # "" THEN [NoQuery EXCEPT !.category = Some(category)] ELSE NoQuery

\* The object `{}` that "New Post" puts in editingPost, and a post of the
\* list as the object that "Edit" puts there.
EmptyObject == [_id |-> None, doc |-> None]
AsObject(p) == [_id |-> Some(p._id), doc |-> Some(p.doc)]

\* JavaScript truthiness of editingPost: null is falsy, every object is
\* truthy, `{}` included.
ObjectTruthy(o) == IsSome(o)

\* A state of the server the component is mounted against: the Admin has
\* created one post with the editor.
InitClient ==
  /\ users = StoredUsers
  /\ posts = Insert(<<>>, 1, Stored(NewPost(EditorBody, StoredUsers["admin"])))
  /\ comments = <<>>
  /\ nextPostId = 2
  /\ nextCommentId = 1
  /\ req = [c \in Conns |-> Idle]
  /\ ui = UiInit

ServerFrame == UNCHANGED <<users, posts, comments, nextPostId, nextCommentId>>

\* loadPosts up to its await: setLoading(true) and api.get('/posts', { params })
\* on a free connection; `u` is the state the caller leaves.
loadPosts(c, params, u, kind) ==
  /\ Free(c)
  /\ ui.issued < MaxCalls
  /\ req' = [req EXCEPT ![c] =
               [Idle EXCEPT !.kind = "listPosts", !.query = params, !.pc = "find"]]
  /\ ui' = [u EXCEPT !.loading = TRUE,
                     !.calls[c] = [kind |-> kind, seq |-> ui.issued + 1,
                                   closure |-> None],
                     !.issued = ui.issued + 1,
                     !.latest = None]
  /\ ServerFrame

\* useEffect(() => { loadPosts(); }, []): runs once, after the first render.
Mount ==
  /\ ~ui.mounted
  /\ \E c \in Conns : loadPosts(c, NoQuery, [ui EXCEPT !.mounted = TRUE], "mount")

\* SearchAndFilter's form is submitted (its button is disabled while
\* searchLoading): onSearch(searchTerm.trim()), handleSearch up to the await.
handleSearch ==
  /\ ui.mounted /\ ~ui.searchLoading
  /\ \E typed \in SearchTerms, c \in Conns :
       loadPosts(c, SearchParams(Trim(typed)),
                 [ui EXCEPT !.searchLoading = TRUE], "search")

\* The category select changes: onFilter(category), handleFilter up to the
\* await.
handleFilter ==
  /\ ui.mounted
  /\ \E category \in FilterCategories, c \in Conns :
       loadPosts(c, FilterParams(category),
                 [ui EXCEPT !.searchLoading = TRUE], "filter")

LoadKinds == {"mount", "search", "filter"}

\* The response of api.get arrives: setPosts(response.data.posts), then
\* `finally` setLoading(false), then the caller's `finally`
\* setSearchLoading(false).
loadPostsResolve(c) ==
  /\ ui.calls[c].kind \in LoadKinds
  /\ req[c].pc = "done" /\ req[c].status = 200
  /\ ui' = [ui EXCEPT !.posts = Get(req[c].out).posts,
                      !.loading = FALSE,
                      !.searchLoading = IF ui.calls[c].kind = "mount" THEN @ ELSE FALSE,
                      !.latest = IF ui.calls[c].seq = ui.issued
                                 THEN Some(Get(req[c].out).posts) ELSE @,
                      !.calls[c] = NoCall]
  /\ req' = [req EXCEPT ![c] = Idle]
  /\ ServerFrame

\* api.get rejects (the network fails): `catch` notifies, the two `finally`
\* blocks reset the flags, the posts displayed stay.
loadPostsReject(c) ==
  /\ ui.calls[c].kind \in LoadKinds
  /\ ~Free(c)
  /\ ui' = [ui EXCEPT !.loading = FALSE,
                      !.searchLoading = IF ui.calls[c].kind = "mount" THEN @ ELSE FALSE,
                      !.calls[c] = NoCall]
  /\ req' = [req EXCEPT ![c] = Idle]
  /\ ServerFrame

\* "New Post" / "Create Your First Post": setEditingPost({})
NewPostClick ==
  /\ ui.mounted
  /\ ui' = [ui EXCEPT !.editingPost = Some(EmptyObject)]
  /\ UNCHANGED req /\ ServerFrame

\* "Edit" on a card of the grid (rendered when not loading): onEdit(post)
onEdit ==
  /\ ui.mounted /\ ~ui.loading
  /\ \E i \in DOMAIN ui.posts :
       ui' = [ui EXCEPT !.editingPost = Some(AsObject(ui.posts[i]))]
  /\ UNCHANGED req /\ ServerFrame

\* The editor's Cancel: setEditingPost(null)
onCancel ==
  /\ ObjectTruthy(ui.editingPost)
  /\ ui' = [ui EXCEPT !.editingPost = None]
  /\ UNCHANGED req /\ ServerFrame

\* PostEditor.handleSubmit up to its await.  The editor is rendered while
\* editingPost is truthy, with post = editingPost._id ? editingPost : null;
\* it sends api.put when post is set and api.post otherwise.  The onSave it
\* will call is the handleSavePost of this render, which closes over the
\* editingPost of this render.
handleSubmit ==
  /\ ObjectTruthy(ui.editingPost)
  /\ \E c \in Conns, form \in ClientForms :
       LET e == Get(ui.editingPost) IN
       /\ Free(c)
       /\ ~IsSome(e._id) =>
            nextPostId + Cardinality(InFlight({"createPost"})) <= MaxListed
       /\ req' = [req EXCEPT ![c] =
            IF IsSome(e._id)
            THEN authToken([Idle EXCEPT !.kind = "updatePost", !.token = SessionToken,
                                        !.id = Get(e._id), !.body = form])
            ELSE authToken([Idle EXCEPT !.kind = "createPost", !.token = SessionToken,
                                        !.body = form])]
       /\ ui' = [ui EXCEPT !.calls[c] =
                   [kind |-> "save", seq |-> 0, closure |-> ui.editingPost]]
  /\ ServerFrame

\* handleSavePost(savedPost), with the editingPost it closes over:
\* if (editingPost) prev.map(p => p._id === savedPost._id ? savedPost : p)
\* else [savedPost, ...prev]; then setEditingPost(null).
handleSavePost(u, savedPost, editingPost) ==
  [u EXCEPT
     !.posts = IF ObjectTruthy(editingPost)
               THEN [i \in DOMAIN u.posts |->
                       IF u.posts[i]._id = savedPost._id THEN savedPost ELSE u.posts[i]]
               ELSE <<savedPost>> \o u.posts,
     !.editingPost = None]

\* The response of api.post / api.put arrives: on 2xx onSave(response.data.post)
\* is called; otherwise axios rejects and `catch` notifies.
handleSubmitResolve(c) ==
  /\ ui.calls[c].kind = "save"
  /\ req[c].pc = "done"
  /\ LET u == [ui EXCEPT !.calls[c] = NoCall] IN
     ui' = IF req[c].status \in {200, 201} /\ IsSome(req[c].out)
           THEN handleSavePost(u, [_id |-> req[c].id, doc |-> Get(req[c].out)],
                               ui.calls[c].closure)
           ELSE u
  /\ req' = [req EXCEPT ![c] = Idle]
  /\ ServerFrame

(***************************************************************************)
(* Specifications.                                                         *)
(***************************************************************************)
\* The steps of the post routes.
PostStep(c, in) ==
  \/ RequestGetPost(c, in)
  \/ RequestCreatePost(c, in)
  \/ RequestUpdatePost(c, in)
  \/ RequestDeletePost(c, in)
  \/ AuthLookup(c)
  \/ Release(c)
  \/ GetPostFind(c)
  \/ GetPostInc(c)
  \/ CreatePostSave(c)
  \/ UpdatePostFind(c)
  \/ UpdatePostWrite(c)
  \/ DeletePostFind(c)
  \/ DeletePostRemove(c)

\* The steps of the comment routes.
CommentStep(c, in) ==
  \/ RequestCreateComment(c, in)
  \/ RequestUpdateComment(c, in)
  \/ RequestDeleteComment(c, in)
  \/ CreateCommentFind(c)
  \/ CreateCommentSave(c)
  \/ UpdateCommentFind(c)
  \/ UpdateCommentWrite(c)
  \/ DeleteCommentFind(c)
  \/ DeleteCommentRemove(c)

\* The steps of the list route.
ListStep(c, in) ==
  \/ RequestListPosts(c, in)
  \/ ListPostsFind(c)
  \/ ListPostsCount(c)

\* The whole API, any header and any identifier, one request at a time.
Next == PostStep(1, AllInputs) \/ CommentStep(1, AllInputs)

Spec == Init /\ [][Next]_vars

\* The post routes under concurrent requests: posts are created, updated and
\* deleted by the Admin while they are fetched.
NextViews == \E c \in Conns : PostStep(c, ViewInputs)

SpecViews == Init /\ [][NextViews]_vars

\* The post routes with every shape of request body, one request at a time.
NextFields == PostStep(1, FieldInputs)

SpecFields == Init /\ [][NextFields]_vars

\* The list route over posts of several categories that are created,
\* updated and deleted, one request at a time.
NextList == PostStep(1, ListInputs) \/ ListStep(1, ListInputs)

SpecList == Init /\ [][NextList]_vars

\* The comment routes with every shape of comment text, one request at a
\* time, on posts that are created and deleted.
NextCommentFields ==
  \/ CommentStep(1, CommentFieldInputs)
  \/ RequestCreatePost(1, CommentFieldInputs)
  \/ RequestDeletePost(1, CommentFieldInputs)
  \/ AuthLookup(1)
  \/ Release(1)
  \/ CreatePostSave(1)
  \/ DeletePostFind(1)
  \/ DeletePostRemove(1)

SpecCommentFields == Init /\ [][NextCommentFields]_vars

\* The comment routes, with posts created and deleted, under concurrent
\* requests of the stored users.
NextComments ==
  \E c \in Conns :
    \/ CommentStep(c, CommentInputs)
    \/ RequestCreatePost(c, CommentInputs)
    \/ RequestDeletePost(c, CommentInputs)
    \/ AuthLookup(c)
    \/ Release(c)
    \/ CreatePostSave(c)
    \/ DeletePostFind(c)
    \/ DeletePostRemove(c)

SpecComments == Init /\ [][NextComments]_vars

\* Creations, updates and deletes of posts in flight on every connection at
\* once: each await of a handler is a point where another request runs.
NextRaces ==
  \E c \in Conns :
    \/ RequestCreatePost(c, RaceInputs)
    \/ RequestUpdatePost(c, RaceInputs)
    \/ RequestDeletePost(c, RaceInputs)
    \/ AuthLookup(c)
    \/ Release(c)
    \/ CreatePostSave(c)
    \/ UpdatePostFind(c)
    \/ UpdatePostWrite(c)
    \/ DeletePostFind(c)
    \/ DeletePostRemove(c)

SpecRaces == Init /\ [][NextRaces]_vars

\* The posts list and its search box and category select, with the list
\* route serving every connection.
NextSearch ==
  \/ Mount
  \/ handleSearch
  \/ handleFilter
  \/ \E c \in Conns :
       \/ ListPostsFind(c)
       \/ ListPostsCount(c)
       \/ loadPostsResolve(c)
       \/ loadPostsReject(c)

SpecSearch == InitClient /\ [][NextSearch]_vars

\* The posts list and its editor, with the list, create and update routes
\* serving every connection.
NextEditor ==
  \/ Mount
  \/ NewPostClick
  \/ onEdit
  \/ onCancel
  \/ handleSubmit
  \/ \E c \in Conns :
       \/ ListPostsFind(c)
       \/ ListPostsCount(c)
       \/ loadPostsResolve(c)
       \/ AuthLookup(c)
       \/ CreatePostSave(c)
       \/ UpdatePostFind(c)
       \/ UpdatePostWrite(c)
       \/ handleSubmitResolve(c)

SpecEditor == InitClient /\ [][NextEditor]_vars

(***************************************************************************)
(* Properties.  A step of connection c is a transition that changes        *)
(* req[c]; the request it belongs to is req[c] before the step, except for *)
(* an arrival, where it is req[c] after the step.                          *)
(***************************************************************************)
Stepped(c)  == req'[c] # req[c]
Done(r)     == r.pc = "done"
Answered(r, s) == r.pc = "done" /\ r.status = s
CanAuthor(role) == role \in {"Admin", "Editor"}

\* C1: a post creation by an authenticated user whose role is neither Admin
\* nor Editor is answered 403 in the step that authenticates it, which stores
\* nothing; such a request never gets past that answer, and every stored post
\* was created by an Admin or an Editor.
C1_CreateForbidden ==
  [][\A c \in Conns :
       /\ (/\ Stepped(c) /\ req[c].kind = "createPost" /\ req[c].pc = "auth"
           /\ IsSome(FindUser(req[c].token.id))
           /\ ~CanAuthor(Get(FindUser(req[c].token.id)).role))
          => /\ Answered(req'[c], 403)
             /\ posts' = posts /\ nextPostId' = nextPostId
       /\ (req'[c].kind = "createPost" /\ req'[c].pc = "write")
          => CanAuthor(Get(req'[c].user).role)
       /\ \A id \in DOMAIN posts' \ DOMAIN posts :
            CanAuthor(users[posts'[id].author].role)]_vars

C1_Witness ==
  \E c \in Conns :
    /\ req[c].kind = "createPost" /\ Answered(req[c], 403)
    /\ IsSome(req[c].user) /\ Get(req[c].user).role = "User"
    /\ req[c].body = HelloBody

\* C2: an update or delete of a post that exists when the handler looks it
\* up, by an authenticated user who is neither its author nor an Admin, is
\* answered 403 and leaves the posts unchanged: in the authenticating step
\* when the role is not Editor, in the look-up step when it is.
C2_ModifyForbidden ==
  [][\A c \in Conns :
       LET r == req[c]
           u == IF r.pc = "auth" THEN FindUser(r.token.id) ELSE r.user
       IN (/\ Stepped(c) /\ r.kind \in {"updatePost", "deletePost"}
           /\ r.pc \in {"auth", "find"}
           /\ IsSome(u)
           /\ r.id \in DOMAIN posts
           /\ posts[r.id].author # Get(u)._id
           /\ Get(u).role # "Admin")
          => /\ posts' = posts
             /\ (r.pc = "find" \/ ~CanAuthor(Get(u).role)) => Answered(req'[c], 403)
             /\ (r.pc = "auth" /\ CanAuthor(Get(u).role)) => req'[c].pc = "find"]_vars

\* An Editor was refused the update of a post written by the Admin, and the
\* post is still stored.
C2_Witness ==
  \E c \in Conns :
    /\ req[c].kind = "updatePost" /\ Answered(req[c], 403)
    /\ Get(req[c].user).role = "Editor"
    /\ req[c].id \in DOMAIN posts /\ posts[req[c].id].author = "admin"

\* C3: in every step, the view counter of every post that stays stored grows
\* by the number of Get One requests on it that the step answers with 200
\* (0 or 1): each successful fetch adds exactly 1 to the stored counter,
\* whatever was read before, and nothing else changes it; so N fetches,
\* however interleaved, add exactly N.
C3_ViewsExact ==
  [][\A id \in DOMAIN posts \cap DOMAIN posts' :
       posts'[id].views =
         posts[id].views
           + Cardinality({c \in Conns :
               /\ req[c].kind = "getPost" /\ req[c].id = id
               /\ req[c].pc = "write" /\ Answered(req'[c], 200)})]_vars

\* Two fetches that both read the counter at 0 have both been answered, and
\* the stored counter is 2.
C3_Witness ==
  \E c, d \in Conns :
    /\ c # d
    /\ req[c].kind = "getPost" /\ req[d].kind = "getPost"
    /\ Answered(req[c], 200) /\ Answered(req[d], 200)
    /\ req[c].id = req[d].id
    /\ Get(req[c].out).views = 0 /\ Get(req[d].out).views = 0
    /\ req[c].id \in DOMAIN posts /\ posts[req[c].id].views = 2

\* C4: for an update or delete of a post that exists when the handler looks
\* it up, the request passes the role gate exactly when the caller's role is
\* Admin or Editor, passes the owner check exactly when the caller is an
\* Admin or the stored author, and is otherwise answered 403; once past both
\* it is answered 200 (a delete always, an update when its fields satisfy the
\* schema), and no request of another caller reaches the write.
C4_ModifyExactlyWhenPermitted ==
  [][\A c \in Conns :
       LET r == req[c]
           u == IF r.pc = "auth" THEN FindUser(r.token.id) ELSE r.user
       IN (Stepped(c) /\ r.kind \in {"updatePost", "deletePost"}) =>
            /\ (r.pc = "auth" /\ IsSome(u)) =>
                 /\ CanAuthor(Get(u).role) <=> req'[c].pc = "find"
                 /\ ~CanAuthor(Get(u).role) <=> Answered(req'[c], 403)
            /\ (r.pc = "find" /\ r.id \in DOMAIN posts) =>
                 LET permitted == \/ Get(u).role = "Admin"
                                  \/ posts[r.id].author = Get(u)._id
                 IN /\ CanAuthor(Get(u).role)
                    /\ permitted <=> req'[c].pc = "write"
                    /\ ~permitted <=> Answered(req'[c], 403)
            /\ (r.pc = "write") =>
                 /\ Done(req'[c])
                 /\ req'[c].status = 200
                      <=> (r.kind = "deletePost"
                           \/ PostUpdateErrors(PostUpdateDoc(r.body)) = <<>>)
            /\ (r.pc \notin {"find", "write"}) => req'[c].pc # "write"]_vars

\* An Admin has updated a post written by an Editor.
C4_Witness ==
  \E c \in Conns :
    /\ req[c].kind = "updatePost" /\ Answered(req[c], 200)
    /\ Get(req[c].user).role = "Admin"
    /\ IsSome(req[c].out) /\ Get(req[c].out).author._id = "editor"
    /\ req[c].id \in DOMAIN posts /\ posts[req[c].id].author = "editor"

\* C5: an update or delete of a comment that exists when the handler looks
\* it up goes on to the write exactly when the caller is the comment's author
\* (whatever the author's role) or an Admin; any other authenticated caller
\* is answered 403.  A stored comment is changed or removed only by the
\* write of such a request, so a refused request leaves it unchanged.
C5_CommentOwnerOrAdmin ==
  [][/\ \A c \in Conns :
          LET r == req[c] IN
          (Stepped(c) /\ r.kind \in {"updateComment", "deleteComment"}) =>
            /\ (r.pc = "find" /\ r.id \in DOMAIN comments) =>
                 LET permitted == \/ Get(r.user).role = "Admin"
                                  \/ comments[r.id].userID = Get(r.user)._id
                 IN /\ permitted <=> req'[c].pc = "write"
                    /\ ~permitted <=> Answered(req'[c], 403)
            /\ (r.pc # "find") => req'[c].pc # "write"
            /\ (req'[c].status = 200) => r.pc = "write"
     /\ \A id \in DOMAIN comments :
          (id \notin DOMAIN comments' \/ comments'[id] # comments[id]) =>
            \E c \in Conns :
              /\ Stepped(c) /\ req[c].pc = "write" /\ req[c].id = id
              /\ req[c].kind \in {"updateComment", "deleteComment"}]_vars

\* An Editor was refused on a comment written by a user of role User, and
\* the comment is still stored.
C5_Witness ==
  \E c \in Conns :
    /\ req[c].kind \in {"updateComment", "deleteComment"}
    /\ Answered(req[c], 403)
    /\ Get(req[c].user).role = "Editor"
    /\ req[c].id \in DOMAIN comments
    /\ comments[req[c].id].userID = "user"

\* C6: a comment creation that carries a comment text and a well-formed post
\* identifier naming no stored post is answered 404 by the look-up step, and
\* the step stores no comment.
C6_CreateCommentNotFound ==
  [][\A c \in Conns :
       (/\ Stepped(c) /\ req[c].kind = "createComment" /\ req[c].pc = "find"
        /\ Get(req[c].body.postID) # MalformedId
        /\ Get(req[c].body.postID) \notin DOMAIN posts)
       => /\ Answered(req'[c], 404)
          /\ comments' = comments
          /\ nextCommentId' = nextCommentId]_vars

\* A comment creation on a post that was created and deleted before was
\* answered 404, and no comment is stored.
C6_Witness ==
  \E c \in Conns :
    /\ req[c].kind = "createComment" /\ Answered(req[c], 404)
    /\ Get(req[c].body.postID) \in 1..(nextPostId - 1)
    /\ comments = <<>> /\ nextCommentId = 1

\* C7: whenever a comment record is stored, its parent post is stored.
C7_ParentExistsWhenStored ==
  [][\A id \in DOMAIN comments' \ DOMAIN comments :
       comments'[id].postID \in DOMAIN posts']_vars

\* C8, the lifecycle scenario, step by step:
\*  - the save of a valid post that an Admin sends without a category is
\*    answered 201 with category "General" and views 0, and stores that post;
\*  - a delete by a user of role User, who is not the author, is answered 403
\*    and the post remains;
\*  - a delete by the author goes past the owner check and its write is
\*    answered 200, with the post removed;
\*  - a post once deleted stays deleted, and the look-up of every Get One on
\*    its identifier is answered 404.
C8_Lifecycle ==
  [][/\ \A c \in Conns :
          LET r == req[c] IN
          Stepped(c) =>
            /\ (/\ r.kind = "createPost" /\ r.pc = "write"
                /\ Get(r.user).role = "Admin"
                /\ ~IsSome(r.body.category)
                /\ PostSaveErrors(NewPost(r.body, Get(r.user))) = <<>>)
               => /\ Answered(req'[c], 201)
                  /\ Get(req'[c].out).category = "General"
                  /\ Get(req'[c].out).views = 0
                  /\ req'[c].id \in DOMAIN posts' \ DOMAIN posts
                  /\ posts'[req'[c].id].category = "General"
                  /\ posts'[req'[c].id].views = 0
                  /\ posts'[req'[c].id].author = Get(r.user)._id
            /\ (/\ r.kind = "deletePost" /\ r.pc = "auth"
                /\ r.id \in DOMAIN posts
                /\ IsSome(FindUser(r.token.id))
                /\ Get(FindUser(r.token.id)).role = "User"
                /\ posts[r.id].author # r.token.id)
               => Answered(req'[c], 403) /\ posts' = posts
            /\ (/\ r.kind = "deletePost" /\ r.pc = "find"
                /\ r.id \in DOMAIN posts
                /\ posts[r.id].author = Get(r.user)._id)
               => req'[c].pc = "write" /\ posts' = posts
            /\ (r.kind = "deletePost" /\ r.pc = "write")
               => Answered(req'[c], 200) /\ posts' = Remove(posts, r.id)
            /\ (/\ r.kind = "getPost" /\ r.pc = "find"
                /\ r.id \in 1..(nextPostId - 1) /\ r.id \notin DOMAIN posts)
               => Answered(req'[c], 404)
     /\ \A id \in 1..(nextPostId - 1) :
          id \notin DOMAIN posts => id \notin DOMAIN posts']_vars

\* A Get One on the identifier of a post that was created and then deleted
\* was answered 404.
C8_Witness ==
  \E c \in Conns :
    /\ req[c].kind = "getPost" /\ Answered(req[c], 404)
    /\ req[c].id \in 1..(nextPostId - 1)
    /\ req[c].id \notin DOMAIN posts

\* C9: on every route behind `auth`: an absent token and a token that fails
\* verification are answered 401 on arrival; a verified token whose user is
\* not stored is answered 401 when the look-up resolves; in both cases no
\* user is attached and the handler is never entered.  Otherwise the stored
\* user, without the password, is attached and the answer is not 401.  No
\* step of the middleware changes a collection, and a handler only runs for
\* a request with a user attached.
C9_CredentialVerifier ==
  [][\A c \in Conns :
       LET r == req[c]  r2 == req'[c] IN
       Stepped(c) =>
         /\ (Free(c) /\ r2.kind \in AuthKinds) =>
              /\ r2.token.kind \in {"absent", "invalid"}
                   => Answered(r2, 401) /\ r2.user = None
              /\ r2.token.kind = "valid" => r2.pc = "auth" /\ r2.user = None
              /\ <<users, posts, comments>>' = <<users, posts, comments>>
         /\ (r.pc = "auth") =>
              /\ r.token.id \notin DOMAIN users
                   => Answered(r2, 401) /\ r2.user = None
              /\ r.token.id \in DOMAIN users
                   => /\ r2.user = Some([_id      |-> r.token.id,
                                         username |-> users[r.token.id].username,
                                         role     |-> users[r.token.id].role])
                      /\ r2.status # 401
              /\ <<users, posts, comments>>' = <<users, posts, comments>>
         /\ (r2.kind \in AuthKinds /\ r2.pc \in {"find", "write"})
              => IsSome(r2.user)
         /\ (r.kind \in AuthKinds /\ r.status = 401) => r2 = Idle]_vars

\* A request whose verified token names a user that is not stored was
\* answered 401, with no user attached.
C9_Witness ==
  \E c \in Conns :
    /\ req[c].kind \in AuthKinds /\ Answered(req[c], 401)
    /\ req[c].token = TokenFor(GhostId)
    /\ req[c].user = None

\* The caller of an update or delete is not permitted on the target: not an
\* Admin and, if the target is stored, not its owner.
NotPermitted(r, u) ==
  /\ u.role # "Admin"
  /\ r.kind \in {"updatePost", "deletePost"} /\ r.id \in DOMAIN posts
       => posts[r.id].author # u._id
  /\ r.kind \in {"updateComment", "deleteComment"} /\ r.id \in DOMAIN comments
       => comments[r.id].userID # u._id

TargetStored(r) ==
  IF r.kind \in {"updatePost", "deletePost"}
  THEN r.id \in DOMAIN posts ELSE r.id \in DOMAIN comments

ModifyKinds == {"updatePost", "deletePost", "updateComment", "deleteComment"}

\* C10 as stated: the look-up step of an update or delete by a caller who is
\* not permitted answers 403 whether or not the (well-formed) target is
\* stored.
C10_ForbiddenRegardlessOfExistence ==
  [][\A c \in Conns :
       (/\ Stepped(c) /\ req[c].kind \in ModifyKinds /\ req[c].pc = "find"
        /\ req[c].id # MalformedId
        /\ NotPermitted(req[c], Get(req[c].user)))
       => Answered(req'[c], 403)]_vars

\* C10 as amended: a caller whose role is neither Admin nor Editor is
\* answered 403 on a post update or delete before the post is looked up,
\* whether or not it is stored; every other caller who is not permitted is
\* answered 403 by the look-up when the target is stored and 404 when it is
\* not.
C10_ForbiddenOrNotFound ==
  [][\A c \in Conns :
       LET r == req[c] IN
       (Stepped(c) /\ r.kind \in ModifyKinds /\ r.id # MalformedId) =>
         /\ (/\ r.pc = "auth" /\ r.kind \in EditorKinds
             /\ IsSome(FindUser(r.token.id))
             /\ ~CanAuthor(Get(FindUser(r.token.id)).role))
            => Answered(req'[c], 403)
         /\ (r.pc = "find" /\ NotPermitted(r, Get(r.user)))
            => /\ Done(req'[c])
               /\ req'[c].status = IF TargetStored(r) THEN 403 ELSE 404]_vars

\* A caller of role User was answered 403 on the update of a post that is
\* not stored.
C10_Witness ==
  \E c \in Conns :
    /\ req[c].kind = "updatePost" /\ Answered(req[c], 403)
    /\ Get(req[c].user).role = "User"
    /\ req[c].id = MissingId

\* C11: a post list whose category parameter has a value other than "all"
\* returns only posts of that category and, when no tag is asked for, counts
\* exactly the stored posts of that category; with the parameter absent,
\* empty or "all" and no tag, the posts of every category are counted, and
\* listed when they fit the page.
C11_CategoryFilter ==
  [][\A c \in Conns :
       LET r   == req[c]
           q   == r.query
           out == Get(req'[c].out)
       IN (Stepped(c) /\ r.kind = "listPosts" /\ r.pc = "write") =>
            /\ Answered(req'[c], 200)
            /\ (IsSome(q.category) /\ Get(q.category) \notin {"", "all"}) =>
                 /\ \A k \in DOMAIN out.posts :
                      out.posts[k].doc.category = Get(q.category)
                 /\ ~IsSome(q.tag) =>
                      out.pagination.totalPosts =
                        Cardinality({i \in DOMAIN posts :
                                       posts[i].category = Get(q.category)})
            /\ (/\ ~IsSome(q.category) \/ Get(q.category) \in {"", "all"}
                /\ ~IsSome(q.tag)) =>
                 /\ out.pagination.totalPosts = Cardinality(DOMAIN posts)
                 /\ (~IsSome(q.page) /\ ~IsSome(q.limit)) =>
                      {out.posts[k]._id : k \in DOMAIN out.posts} = DOMAIN posts]_vars

\* With one General and one Technology post stored, the list for
\* category=Technology was answered with the Technology post alone.
C11_Witness ==
  \E c \in Conns :
    /\ req[c].kind = "listPosts" /\ Answered(req[c], 200)
    /\ req[c].query.category = Some("Technology")
    /\ ~IsSome(req[c].query.page) /\ ~IsSome(req[c].query.limit)
    /\ Len(Get(req[c].out).posts) = 1
    /\ Get(req[c].out).posts[1].doc.category = "Technology"
    /\ \E i \in DOMAIN posts : posts[i].category = "General"

\* C12: the save of a post created with a tag list stores as many tags as
\* were submitted, the i-th stored tag being the i-th submitted tag trimmed
\* (so order and duplicates are kept), and answers with them; the editor's
\* text "a, b, b" is stored as a, b, b.  A fetch reads the stored tags,
\* answers with them unchanged and leaves them stored as they were.
C12_TagsRoundTrip ==
  [][\A c \in Conns :
       LET r == req[c] IN
       Stepped(c) =>
         /\ (/\ r.kind = "createPost" /\ r.pc = "write"
             /\ Answered(req'[c], 201) /\ IsSome(r.body.tags)) =>
              LET sent == Get(r.body.tags)
                  kept == posts'[req'[c].id].tags
              IN /\ Len(kept) = Len(sent)
                 /\ \A i \in DOMAIN sent : kept[i] = Trim(sent[i])
                 /\ Get(req'[c].out).tags = kept
                 /\ r.body = EditorBody =>
                      kept = <<Txt("a", 1), Txt("b", 1), Txt("b", 1)>>
         /\ (r.kind = "getPost" /\ r.pc = "find" /\ r.id \in DOMAIN posts) =>
              Get(req'[c].found).tags = posts[r.id].tags
         /\ (r.kind = "getPost" /\ r.pc = "write") =>
              /\ Answered(req'[c], 200)
              /\ Get(req'[c].out).tags = Get(r.found).tags
         /\ (r.kind = "getPost") =>
              \A id \in DOMAIN posts :
                id \in DOMAIN posts' /\ posts'[id].tags = posts[id].tags]_vars

\* A post sent with the tags " a", "b  ", "b" was fetched and came back with
\* the tags a, b, b.
C12_Witness ==
  \E c \in Conns :
    /\ req[c].kind = "getPost" /\ Answered(req[c], 200)
    /\ Get(req[c].out).tags = <<Txt("a", 1), Txt("b", 1), Txt("b", 1)>>
    /\ Get(req[c].out).category = "General"

\* C13: the author of a stored post never changes, and a post enters the
\* store only by the save of a create request, with the identity of the
\* authenticated caller of that request as its author.
C13_AuthorImmutable ==
  [][/\ \A id \in DOMAIN posts \cap DOMAIN posts' :
          posts'[id].author = posts[id].author
     /\ \A id \in DOMAIN posts' \ DOMAIN posts :
          \E c \in Conns :
            /\ Stepped(c) /\ req[c].kind = "createPost" /\ req[c].pc = "write"
            /\ req[c].token.kind = "valid"
            /\ posts'[id].author = req[c].token.id]_vars

\* An Admin's update that names another author in its body was answered 200
\* on a post created by the Editor, whose author is still the Editor.
C13_Witness ==
  \E c \in Conns :
    /\ req[c].kind = "updatePost" /\ Answered(req[c], 200)
    /\ req[c].token = TokenFor("admin")
    /\ req[c].body.author = Some("user")
    /\ req[c].id \in DOMAIN posts /\ posts[req[c].id].author = "editor"

\* C14: a post enters the store with 0 views; in every step the counter of
\* a stored post stays the same or grows by 1, and it grows only in the
\* write of a Get One on that post; no step of an update request, whatever
\* its body, changes the counter of any post.
C14_ViewsMonotone ==
  [][/\ \A id \in DOMAIN posts' \ DOMAIN posts : posts'[id].views = 0
     /\ \A id \in DOMAIN posts \cap DOMAIN posts' :
          /\ posts'[id].views >= posts[id].views
          /\ posts'[id].views # posts[id].views =>
               /\ posts'[id].views = posts[id].views + 1
               /\ \E c \in Conns :
                    /\ Stepped(c) /\ req[c].kind = "getPost"
                    /\ req[c].pc = "write" /\ req[c].id = id
     /\ \A c \in Conns :
          (Stepped(c) /\ req[c].kind = "updatePost") =>
            \A id \in DOMAIN posts :
              id \in DOMAIN posts' /\ posts'[id].views = posts[id].views]_vars

\* An update whose body names a view count of 7 was answered 200 on a post
\* fetched twice before, and the stored counter is 2.
C14_Witness ==
  \E c \in Conns :
    /\ req[c].kind = "updatePost" /\ Answered(req[c], 200)
    /\ req[c].body.views = Some(7)
    /\ req[c].id \in DOMAIN posts /\ posts[req[c].id].views = 2
    /\ Get(req[c].out).views = 2

\* C15: no step of a post delete changes the comment collection; the write
\* of the delete removes the post addressed and leaves every other post as
\* it was, and the steps before the write change no post.
C15_DeleteNoCascade ==
  [][\A c \in Conns :
       (Stepped(c) /\ req[c].kind = "deletePost") =>
         /\ comments' = comments
         /\ (req[c].pc = "write") =>
              /\ Answered(req'[c], 200)
              /\ DOMAIN posts' = DOMAIN posts \ {req[c].id}
              /\ \A i \in DOMAIN posts' : posts'[i] = posts[i]
         /\ (req[c].pc # "write") => posts' = posts]_vars

\* A post was deleted (200) and a comment that references it is still
\* stored.
C15_Witness ==
  \E c \in Conns :
    /\ req[c].kind = "deletePost" /\ Answered(req[c], 200)
    /\ req[c].id \notin DOMAIN posts
    /\ \E i \in DOMAIN comments : comments[i].postID = req[c].id

\* C16: the write of a post update that is answered 200 on a stored post
\* leaves each of title, body, tags and category that the request omits as
\* it was stored, stores each one the request supplies (title and tags
\* trimmed), and changes nothing else: not the author, not the counter, not
\* another post.
C16_PartialUpdate ==
  [][\A c \in Conns :
       LET r == req[c] IN
       (/\ Stepped(c) /\ r.kind = "updatePost" /\ r.pc = "write"
        /\ Answered(req'[c], 200) /\ r.id \in DOMAIN posts) =>
         LET old == posts[r.id]
             new == posts'[r.id]
         IN /\ DOMAIN posts' = DOMAIN posts
            /\ new.title = IF IsSome(r.body.title)
                           THEN Trim(Get(r.body.title)) ELSE old.title
            /\ new.body = IF IsSome(r.body.body) THEN Get(r.body.body) ELSE old.body
            /\ new.category = IF IsSome(r.body.category)
                              THEN Get(r.body.category) ELSE old.category
            /\ IF IsSome(r.body.tags)
               THEN /\ Len(new.tags) = Len(Get(r.body.tags))
                    /\ \A i \in DOMAIN new.tags :
                         new.tags[i] = Trim(Get(r.body.tags)[i])
               ELSE new.tags = old.tags
            /\ new.author = old.author /\ new.views = old.views
            /\ \A i \in DOMAIN posts \ {r.id} : posts'[i] = posts[i]
            /\ Get(req'[c].out).title = new.title
            /\ Get(req'[c].out).tags = new.tags
            /\ Get(req'[c].out).category = new.category]_vars

\* An update that carries a title alone was answered 200 on a post filed
\* under Technology with the tags a, b, b: the title is the new one, and
\* category and tags are as before.
C16_Witness ==
  \E c \in Conns :
    /\ req[c].kind = "updatePost" /\ Answered(req[c], 200)
    /\ req[c].body = TitleOnlyBody
    /\ req[c].id \in DOMAIN posts
    /\ posts[req[c].id].title = Txt("t", 3)
    /\ posts[req[c].id].category = "Technology"
    /\ posts[req[c].id].tags = <<Txt("a", 1), Txt("b", 1), Txt("b", 1)>>

\* The fields of an update body that violate their constraint, and the
\* messages the schema gives for each field.
ViolatedFields(b) ==
  {f \in {"title", "body", "tags", "category"} :
     /\ IsSome(b[f])
     /\ CASE f = "title" -> \/ Trim(Get(b.title)) = <<>>
                            \/ TextLen(Trim(Get(b.title))) > 200
          [] f = "body"  -> \/ Get(b.body) = <<>>
                            \/ TextLen(Get(b.body)) < 10
          [] f = "tags"  -> \E i \in DOMAIN Get(b.tags) :
                              TextLen(Trim(Get(b.tags)[i])) > 50
          [] OTHER       -> Get(b.category) \notin
                              {"General", "Technology", "Development",
                               "Design", "Business", "Lifestyle"}}

MessagesOf(f) ==
  CASE f = "title" -> {"Title is required", "Title cannot exceed 200 characters"}
    [] f = "body"  -> {"Body content is required",
                       "Body must be at least 10 characters long"}
    [] f = "tags"  -> {"Tag cannot exceed 50 characters"}
    [] OTHER       -> {"not a valid enum value for path category"}

\* C17: the write of a post update whose body violates the constraint of at
\* least one field is answered 400 with an error list that holds a message
\* for every violated field, and leaves the posts as they were; an update
\* that violates none is not answered 400.
C17_AllViolationsListed ==
  [][\A c \in Conns :
       LET r == req[c] IN
       (Stepped(c) /\ r.kind = "updatePost" /\ r.pc = "write") =>
         IF ViolatedFields(r.body) # {}
         THEN /\ Answered(req'[c], 400)
              /\ posts' = posts
              /\ \A f \in ViolatedFields(r.body) :
                   \E k \in DOMAIN req'[c].errors :
                     req'[c].errors[k] \in MessagesOf(f)
              /\ Len(req'[c].errors) >= Cardinality(ViolatedFields(r.body))
         ELSE req'[c].status # 400]_vars

\* An update that violates title, body, tags and category at once was
\* answered 400 with four messages, and the post is stored as created.
C17_Witness ==
  \E c \in Conns :
    /\ req[c].kind = "updatePost" /\ Answered(req[c], 400)
    /\ req[c].body = BadBody
    /\ Len(req[c].errors) = 4
    /\ req[c].id \in DOMAIN posts
    /\ posts[req[c].id].title = Txt("a", 5)
    /\ posts[req[c].id].category = "General"

\* C18: the look-up of every handler addressed by an identifier answers a
\* malformed identifier with 400, and changes no collection.
C18_MalformedIdIs400 ==
  [][\A c \in Conns :
       LET r  == req[c]
           id == IF r.kind = "createComment" THEN Get(r.body.postID) ELSE r.id
       IN (Stepped(c) /\ r.kind \in Kinds /\ r.pc = "find" /\ id = MalformedId) =>
            /\ Answered(req'[c], 400)
            /\ <<posts, comments>>' = <<posts, comments>>]_vars

\* C19: the write of a create or update of a post or a comment whose fields
\* violate a constraint is answered 400 with a non-empty list of messages.
C19_ValidationIs400 ==
  [][\A c \in Conns :
       LET r == req[c]
           violated ==
             CASE r.kind = "createPost" ->
                    \/ ~IsSome(r.body.title) \/ ~IsSome(r.body.body)
                    \/ ViolatedFields(r.body) # {}
               [] r.kind = "updatePost" -> ViolatedFields(r.body) # {}
               [] r.kind \in {"createComment", "updateComment"} ->
                    \/ TextLen(Trim(Get(r.body.comment))) < 1
                    \/ TextLen(Trim(Get(r.body.comment))) > 1000
               [] OTHER -> FALSE
       IN (Stepped(c) /\ r.pc = "write" /\ violated) =>
            /\ Answered(req'[c], 400)
            /\ req'[c].errors # <<>>]_vars

\* C20: every stored post has a category among the six of the enum, a title
\* of at most 200 characters, a body of at least 10 characters and tags of
\* at most 50 characters each.
C20_StoredPostsValid ==
  \A id \in DOMAIN posts :
    /\ posts[id].category \in {"General", "Technology", "Development",
                               "Design", "Business", "Lifestyle"}
    /\ TextLen(posts[id].title) <= 200
    /\ TextLen(posts[id].body) >= 10
    /\ \A i \in DOMAIN posts[id].tags : TextLen(posts[id].tags[i]) <= 50

\* A post was moved to the category Design by an update answered 200, after
\* which an update violating four constraints was answered 400.
C20_Witness ==
  \E c \in Conns :
    /\ req[c].kind = "updatePost" /\ Answered(req[c], 400)
    /\ req[c].body = BadBody
    /\ req[c].id \in DOMAIN posts
    /\ posts[req[c].id].category = "Design"

\* A comment text that is absent, empty or made of blanks only.
Blank(o) == ~IsSome(o) \/ Get(o) = <<>> \/ \A i \in DOMAIN Get(o) : Get(o)[i].ch = " "

\* C21: every stored comment text begins and ends with a character that is
\* not a blank and has between 1 and 1000 characters; no step of a comment
\* create or update whose text is absent, empty or blank changes the stored
\* comments, such a request is never answered with success, and once it is
\* authenticated it is answered at the latest by its write.
C21_CommentTextStored ==
  [][/\ \A id \in DOMAIN comments' :
          LET t == comments'[id].comment IN
          /\ t # <<>> /\ t[1].ch # " " /\ t[Len(t)].ch # " "
          /\ TextLen(t) >= 1 /\ TextLen(t) <= 1000
     /\ \A c \in Conns :
          LET r == IF Free(c) THEN req'[c] ELSE req[c] IN
          (/\ Stepped(c) /\ r.kind \in {"createComment", "updateComment"}
           /\ Blank(r.body.comment)) =>
            /\ comments' = comments
            /\ req'[c].status \notin {200, 201}
            /\ (req[c].pc = "write") => Answered(req'[c], 400)
            /\ (r.kind = "updateComment") => req'[c].pc \notin {"find", "write"}]_vars

\* An update with a text of blanks was answered 400 on a comment that was
\* sent padded with blanks and is stored trimmed.
C21_Witness ==
  \E c \in Conns :
    /\ req[c].kind = "updateComment" /\ Answered(req[c], 400)
    /\ req[c].body.comment = Some(Txt(" ", 3))
    /\ req[c].id \in DOMAIN comments
    /\ comments[req[c].id].comment = Txt("c", 2)

\* The stored posts a list query asks for.
Asked(q) ==
  {i \in DOMAIN posts :
     /\ (IsSome(q.category) /\ Get(q.category) \notin {"", "all"})
          => posts[i].category = Get(q.category)
     /\ (IsSome(q.tag) /\ Get(q.tag) # <<>>)
          => \E k \in DOMAIN posts[i].tags : posts[i].tags[k] = Get(q.tag)}

\* C22: the answer to a post list with page >= 1 and limit >= 1 (1 and 10
\* when absent) over `total` matching posts has totalPosts = total,
\* totalPages the least n with n * limit >= total, currentPage = page,
\* hasNextPage iff page < totalPages, hasPrevPage iff page > 1, and holds the
\* matching posts from offset (page - 1) * limit of the newest-first order,
\* at most `limit` of them.
C22_Pagination ==
  [][\A c \in Conns :
       LET r      == req[c]
           q      == r.query
           page   == IF IsSome(q.page) THEN Get(q.page) ELSE 1
           limit  == IF IsSome(q.limit) THEN Get(q.limit) ELSE 10
           total  == Cardinality(Asked(q))
           offset == (page - 1) * limit
           rest   == IF total > offset THEN total - offset ELSE 0
           out    == Get(req'[c].out)
           pg     == out.pagination
       IN (Stepped(c) /\ r.kind = "listPosts" /\ r.pc = "write") =>
            /\ Answered(req'[c], 200)
            /\ pg.totalPosts = total
            /\ pg.totalPages * limit >= total
            /\ (pg.totalPages - 1) * limit < total \/ (total = 0 /\ pg.totalPages = 0)
            /\ pg.currentPage = page
            /\ pg.hasNextPage <=> page < pg.totalPages
            /\ pg.hasPrevPage <=> page > 1
            /\ Len(out.posts) = IF rest < limit THEN rest ELSE limit
            /\ \A k \in DOMAIN out.posts :
                 /\ out.posts[k]._id \in Asked(q)
                 /\ Cardinality({i \in Asked(q) : i > out.posts[k]._id})
                      = offset + k - 1]_vars

\* Page 2 with limit 1 over two stored posts was answered with the older
\* post alone, two pages, a previous page and no next page.
C22_Witness ==
  \E c \in Conns :
    /\ req[c].kind = "listPosts" /\ Answered(req[c], 200)
    /\ req[c].query = [NoQuery EXCEPT !.page = Some(2), !.limit = Some(1)]
    /\ Get(req[c].out).pagination =
         [currentPage |-> 2, totalPages |-> 2, totalPosts |-> 2,
          hasNextPage |-> FALSE, hasPrevPage |-> TRUE]
    /\ Len(Get(req[c].out).posts) = 1
    /\ Get(req[c].out).posts[1]._id = 1

\* The request carries a token that verifies and names a stored user.
ValidToken(r) == r.token.kind = "valid" /\ r.token.id \in DOMAIN users

\* C23: on every mutating route, the step that answers a request without a
\* valid token answers 401, whatever its identifier and body, and no other
\* request is answered 401; the step that answers a post create, update or
\* delete of a caller with a valid token whose role is neither Admin nor
\* Editor answers 403, whether or not the post exists; both answers are
\* given before any look-up, and such requests never reach a look-up or a
\* write.
C23_CheckOrder ==
  [][\A c \in Conns :
       LET r == IF Free(c) THEN req'[c] ELSE req[c]
           gated == /\ ValidToken(r) /\ r.kind \in EditorKinds
                    /\ users[r.token.id].role \notin {"Admin", "Editor"}
       IN (Stepped(c) /\ r.kind \in AuthKinds) =>
            /\ (~ValidToken(r) \/ gated) =>
                 /\ req'[c].pc \notin {"find", "write"}
                 /\ req[c].pc \in {"idle", "auth", "done"}
            /\ (Done(req'[c]) /\ ~Done(req[c])) =>
                 /\ ~ValidToken(r) => req'[c].status = 401
                 /\ req'[c].status = 401 => ~ValidToken(r)
                 /\ gated => req'[c].status = 403]_vars

\* A comment creation with no token, no post identifier and no text was
\* answered 401.
C23_Witness ==
  \E c \in Conns :
    /\ req[c].kind = "createComment" /\ Answered(req[c], 401)
    /\ req[c].token = NoToken
    /\ req[c].body.postID = None /\ req[c].body.comment = None

C25_UpdateSuccessCarriesPost ==
  [][\A c \in Conns :
       LET r == req[c] IN
       (/\ Stepped(c) /\ r.kind = "updatePost" /\ r.pc = "write"
        /\ Answered(req'[c], 200)) =>
         /\ IsSome(req'[c].out)
         /\ r.id \in DOMAIN posts'
         /\ IsSome(r.body.title) => posts'[r.id].title = Trim(Get(r.body.title))
         /\ IsSome(r.body.body) => posts'[r.id].body = Get(r.body.body)
         /\ IsSome(r.body.category) => posts'[r.id].category = Get(r.body.category)
         /\ IsSome(r.body.tags) =>
              /\ Len(posts'[r.id].tags) = Len(Get(r.body.tags))
              /\ \A i \in DOMAIN posts'[r.id].tags :
                   posts'[r.id].tags[i] = Trim(Get(r.body.tags)[i])]_vars

\* C26: the write of a delete that is answered 200 removes a record that was
\* stored until that step, for posts and for comments; so of the deletes of
\* one record at most one is answered 200.
C26_DeleteSuccessRemoved ==
  [][\A c \in Conns :
       LET r == req[c] IN
       /\ (/\ Stepped(c) /\ r.kind = "deletePost" /\ r.pc = "write"
           /\ Answered(req'[c], 200)) =>
            r.id \in DOMAIN posts /\ r.id \notin DOMAIN posts'
       /\ (/\ Stepped(c) /\ r.kind = "deleteComment" /\ r.pc = "write"
           /\ Answered(req'[c], 200)) =>
            r.id \in DOMAIN comments /\ r.id \notin DOMAIN comments']_vars

\* C27: with one request at a time, the step of a Get One that answers 200
\* carries the view count that was stored before the step, and the count
\* stored after the step is the carried count plus 1; the answer differs
\* from the stored post in nothing but the counter and the populated author.
C27_ReportsCountBeforeIncrement ==
  [][\A c \in Conns :
       LET r == req[c] IN
       (/\ Stepped(c) /\ r.kind = "getPost" /\ ~Done(r)
        /\ Answered(req'[c], 200)) =>
         /\ r.id \in DOMAIN posts /\ r.id \in DOMAIN posts'
         /\ Get(req'[c].out).views = posts[r.id].views
         /\ posts'[r.id].views = Get(req'[c].out).views + 1
         /\ Get(req'[c].out) = PopulateAuthor(posts[r.id])]_vars

\* The first fetch of a post was answered with 0 views, and the stored
\* counter is 1.
C27_Witness ==
  \E c \in Conns :
    /\ req[c].kind = "getPost" /\ Answered(req[c], 200)
    /\ Get(req[c].out).views = 0
    /\ req[c].id \in DOMAIN posts /\ posts[req[c].id].views = 1

\* C28: when the response of a save arrives with success, a save from the
\* editor opened with "New Post" puts the saved post at the front of the
\* displayed list and leaves the rest as it was; a save from the editor opened
\* on a post of the list replaces the entry with the saved post's identifier
\* and leaves the length as it was; both close the editor.
C28_SavePlacesPost ==
  [][\A c \in Conns :
       (/\ ui.calls[c].kind = "save" /\ ui'.calls[c] = NoCall
        /\ req[c].status \in {200, 201} /\ IsSome(req[c].out)) =>
         LET e     == Get(ui.calls[c].closure)
             saved == [_id |-> req[c].id, doc |-> Get(req[c].out)]
         IN /\ ~IsSome(e._id) => ui'.posts = <<saved>> \o ui.posts
            /\ IsSome(e._id) =>
                 /\ Len(ui'.posts) = Len(ui.posts)
                 /\ \A i \in DOMAIN ui.posts :
                      ui'.posts[i] = IF ui.posts[i]._id = saved._id
                                     THEN saved ELSE ui.posts[i]
            /\ ui'.editingPost = None]_vars

\* C29: when no loadPosts call of the posts list awaits a response, the two
\* loading flags are false, and if the response to the call issued last has
\* arrived, the displayed posts are the posts of that response.
C29_LatestRequestWins ==
  (ui.mounted /\ \A c \in Conns : ui.calls[c].kind \notin LoadKinds) =>
    /\ ~ui.loading /\ ~ui.searchLoading
    /\ IsSome(ui.latest) => ui.posts = Get(ui.latest)

====
